---- MODULE Spec2Model ----
(***************************************************************************)
(* Model of iq2us_rss: the sitemap -> debate page -> podcast filter ->     *)
(* sort -> RSS pipeline of src/iq2us_rss/iq2us_rss.py.                      *)
(*                                                                         *)
(* Time is counted in whole days.  An optional value (Python None or a     *)
(* value) is a sequence of length 0 or 1.  A duration is the text of the   *)
(* data-duration attribute: a sequence of decimal digits.                  *)
(***************************************************************************)
EXTENDS Integers, Sequences, FiniteSets, TLC

VARIABLES
    args,        \* parsed command line: [audio, sort, since]
    since,       \* main's cutoff datetime: None or <<day>>
    pc,          \* position of main(): start, collect, header, items, done, aborted
    exc,         \* exception that left main(), "none" while there is none
    fetched,     \* TRUE once find_debates has retrieved the sitemap
    sitemap,     \* Debates the sitemap holds, in document order
    idx,         \* number of sitemap debates the debate filter has consumed
    fetchCount,  \* per sitemap position: page fetches issued by find_podcasts
    outcome,     \* per sitemap position: "pending", "dropped", or how the page's
                 \* generator ended ("ok" or the exception it raised)
    page,        \* body of the debate page handed to the podcast filter on its own
    lastYield,   \* what the podcast filter yielded for that page
    yielded,     \* every (debate, podcast) pair find_debate_podcasts has yielded
    genRaise,    \* exception the generator raises once its yielded pairs are consumed
    exhausted,   \* TRUE once find_debate_podcasts has ended normally
    tuples,      \* the sorted list main hands to write_rss (sort enabled)
    consumed,    \* number of pairs write_rss has taken from podcast_tuples
    fh,          \* chunks written to the output file handle, in order
    log          \* error records sent to the logger, in order

vars == <<args, since, pc, exc, fetched, sitemap, idx, fetchCount, outcome,
          page, lastYield, yielded, genRaise, exhausted, tuples, consumed, fh, log>>

(***************************************************************************)
(* Bounds of the model.                                                    *)
(***************************************************************************)
MaxDebates == 2
MaxPodcasts == 2
MaxItems == 2

\* The reading of the clock, in days (datetime.datetime.utcnow()).
Now == 2

None == <<>>
Some(v) == <<v>>
IsSet(o) == o # None
Val(o) == o[1]

\* Days the sitemap and the pages mention: up to the day before today.
Times == 0..(Now - 1)
OptTimes == {None} \cup {Some(t) : t \in Times}

\* Texts of data-duration attributes: "9", "10" and "100".
Durations == {<<9>>, <<1, 0>>, <<1, 0, 0>>}

\* In the runs of the whole pipeline every audio element carries the same
\* duration text; the choice among durations is exercised on the podcast
\* filter alone (SpecFilter).
PipelineDurations == {<<9>>}

RECURSIVE DigitsToInt(_)
\* The number of seconds a duration text denotes.
DigitsToInt(s) ==
    IF s = <<>> THEN 0
    ELSE 10 * DigitsToInt(SubSeq(s, 1, Len(s) - 1)) + s[Len(s)]

RECURSIVE StrLess(_, _)
\* Python's < on two unicode strings of digits: lexicographic by code point,
\* a proper prefix being smaller.
StrLess(a, b) ==
    IF b = <<>> THEN FALSE
    ELSE IF a = <<>> THEN TRUE
    ELSE IF a[1] # b[1] THEN a[1] < b[1]
    ELSE StrLess(Tail(a), Tail(b))

(***************************************************************************)
(* Records.                                                                *)
(***************************************************************************)
\* Debate namedtuple; the url is the debate's position in the sitemap.
Debate(u, lm) == [url |-> u, last_modified |-> lm]

\* Podcast namedtuple; the audio url names the page it stands on and its
\* place on that page.  title, desc and type play no part in any decision.
Podcast(pd, u, d) == [pubDate |-> pd, url |-> u, duration |-> d]

\* An <audio> element of a debate page: well formed (data-duration and a
\* <source> child present) or not.
Audio(d) == [ok |-> TRUE, duration |-> d]
Malformed == [ok |-> FALSE, duration |-> <<>>]
Audios(D) == {Audio(d) : d \in D} \cup {Malformed}

SeqsUpTo(S, n) == UNION {[1..k -> S] : k \in 0..n}

\* What a GET of a debate page can give: a request exception, a body without
\* the div of class "details", or a body with a published_time and audio tags.
PagesOver(D) ==
    {[status |-> "RequestException", pubDate |-> None, audios |-> <<>>],
     [status |-> "nodetails", pubDate |-> None, audios |-> <<>>]}
    \cup {[status |-> "ok", pubDate |-> pd, audios |-> a] :
            pd \in OptTimes, a \in SeqsUpTo(Audios(D), MaxPodcasts)}

Pages == PagesOver(PipelineDurations)
FilterPages == PagesOver(Durations)

NoPage == [status |-> "none", pubDate |-> None, audios |-> <<>>]

\* A generator run to its end: what it yields, then how it ends.
Gen(ys, r) == [yields |-> ys, raises |-> r]

RECURSIVE GoodPrefix(_)
\* Length of the longest prefix of well-formed audio elements.
GoodPrefix(a) ==
    IF a = <<>> \/ ~a[1].ok THEN 0 ELSE 1 + GoodPrefix(Tail(a))

\* find_podcasts(url): raise_for_status or the transport raises before anything
\* is yielded; a missing details div makes soup.find(...) None and the
\* attribute access raises; each audio element is turned into a Podcast when
\* the consumer asks for it, and a malformed one raises at that point.
find_podcasts(url, body) ==
    IF body.status = "RequestException" THEN Gen(<<>>, "RequestException")
    ELSE IF body.status = "nodetails" THEN Gen(<<>>, "AttributeError")
    ELSE LET n == GoodPrefix(body.audios) IN
         Gen([k \in 1..n |-> Podcast(body.pubDate, <<url, k>>, body.audios[k].duration)],
             IF n < Len(body.audios) THEN "KeyError" ELSE "none")

\* The age test with <= in place of <.
TooOldOrEqual(cutoff, podcast) ==
    IsSet(podcast.pubDate) /\ Val(podcast.pubDate) <= Val(cutoff)

\* "podcast.pubDate and podcast.pubDate < since" with since set.
TooOld(cutoff, podcast) ==
    IsSet(podcast.pubDate) /\ Val(podcast.pubDate) < Val(cutoff)

\* The test of the three podcast filters of main.
Skipped(cutoff, podcast) == IsSet(cutoff) /\ TooOld(cutoff, podcast)

Surviving(cutoff, podcasts) ==
    SelectSeq(podcasts, LAMBDA p : ~Skipped(cutoff, p))

\* The key the filters hand to max and min: podcast.duration, a string.
DurationKeyLess(p, q) == StrLess(p.duration, q.duration)

RECURSIVE MaxFrom(_, _)
\* max(list, key=...): the first element no later one exceeds.
MaxFrom(best, rest) ==
    IF rest = <<>> THEN best
    ELSE IF DurationKeyLess(best, rest[1]) THEN MaxFrom(rest[1], Tail(rest))
    ELSE MaxFrom(best, Tail(rest))

RECURSIVE MinFrom(_, _)
\* min(list, key=...): the first element no later one is below.
MinFrom(best, rest) ==
    IF rest = <<>> THEN best
    ELSE IF DurationKeyLess(rest[1], best) THEN MinFrom(rest[1], Tail(rest))
    ELSE MinFrom(best, Tail(rest))

\* podcast_filter of --audio unedited: the list is built first, so an
\* exception of the page generator leaves before anything is yielded.
unedited_filter(cutoff, gen) ==
    IF gen.raises # "none" THEN Gen(<<>>, gen.raises)
    ELSE LET podcast_list == Surviving(cutoff, gen.yields) IN
         IF podcast_list # <<>>
         THEN Gen(<<MaxFrom(podcast_list[1], Tail(podcast_list))>>, "none")
         ELSE Gen(<<>>, "none")

\* podcast_filter of --audio edited.
edited_filter(cutoff, gen) ==
    IF gen.raises # "none" THEN Gen(<<>>, gen.raises)
    ELSE LET podcast_list == Surviving(cutoff, gen.yields) IN
         IF podcast_list # <<>>
         THEN Gen(<<MinFrom(podcast_list[1], Tail(podcast_list))>>, "none")
         ELSE Gen(<<>>, "none")

\* podcast_filter of --audio all with --since: yields as it goes.
all_since_filter(cutoff, gen) ==
    Gen(SelectSeq(gen.yields, LAMBDA p : ~TooOld(cutoff, p)), gen.raises)

\* all_podcasts: the generator itself.
all_podcasts(gen) == gen

\* "if args.since:": an int given on the command line and not 0.
Truthy(o) == IsSet(o) /\ Val(o) # 0

\* The podcast filter main builds for the parsed arguments.
podcast_filter(a, cutoff, gen) ==
    IF a.audio = "unedited" THEN unedited_filter(cutoff, gen)
    ELSE IF a.audio = "edited" THEN edited_filter(cutoff, gen)
    ELSE IF Truthy(a.since) THEN all_since_filter(cutoff, gen)
    ELSE all_podcasts(gen)

\* The debate test with <= in place of <.
DebateDroppedOrEqual(cutoff, debate) ==
    IsSet(cutoff) /\ debate.last_modified <= Val(cutoff)

\* The test of main's debate_filter; all_debates when no cutoff is set.
DebateDropped(cutoff, debate) ==
    IsSet(cutoff) /\ debate.last_modified < Val(cutoff)

\* The cutoff main computes: now - timedelta(args.since), or None.
Cutoff(a) == IF Truthy(a.since) THEN Some(Now - Val(a.since)) ELSE None

\* The sort key of main: the podcast's pubDate if set, else last_modified.
EffectiveTime(ent) ==
    IF IsSet(ent[2].pubDate) THEN Val(ent[2].pubDate) ELSE ent[1].last_modified

RECURSIVE InsertDescTiesFirst(_, _)
\* A descending sort that puts an entry before the entries of equal key, as
\* sorting ascending and reversing the result does.
InsertDescTiesFirst(ent, s) ==
    IF s = <<>> THEN <<ent>>
    ELSE IF EffectiveTime(s[1]) > EffectiveTime(ent)
         THEN <<s[1]>> \o InsertDescTiesFirst(ent, Tail(s))
         ELSE <<ent>> \o s

RECURSIVE InsertDesc(_, _)
\* Place ent behind every entry whose key is not smaller.
InsertDesc(ent, s) ==
    IF s = <<>> THEN <<ent>>
    ELSE IF EffectiveTime(s[1]) >= EffectiveTime(ent)
         THEN <<s[1]>> \o InsertDesc(ent, Tail(s))
         ELSE <<ent>> \o s

\* main without the call of sorted().
NotSorted(s) == s

RECURSIVE SortedDesc(_)
\* sorted(podcast_tuples, key=..., reverse=True): descending and stable.
SortedDesc(s) ==
    IF s = <<>> THEN <<>>
    ELSE InsertDesc(s[Len(s)], SortedDesc(SubSeq(s, 1, Len(s) - 1)))

(***************************************************************************)
(* Content-Length resolver.                                                *)
(***************************************************************************)
\* The value a Content-Length header carries.
LengthHeader == 7

\* Responses to the HEAD request and to the requests that follow redirects:
\* "error" stands for a transport failure or an error status.
Response(k) == [kind |-> k]
Chains ==
    {<<Response(k)>> : k \in {"error", "length", "nolength"}}
    \cup {<<Response("redirect"), Response(k)>> : k \in {"error", "length", "nolength"}}

RECURSIVE _get_content_length(_)
\* Follow the chain: raise on an error, go on while the response redirects,
\* return the header's value, or 0 when the header is missing.
_get_content_length(chain) ==
    IF chain[1].kind = "error" THEN [value |-> 0, raises |-> "RequestException"]
    ELSE IF chain[1].kind = "redirect" THEN _get_content_length(Tail(chain))
    ELSE IF chain[1].kind = "length" THEN [value |-> LengthHeader, raises |-> "none"]
    ELSE [value |-> 0, raises |-> "none"]

\* A write_rss without the try/except around the lookup.
ContentLengthUncaught(chain) ==
    LET r == _get_content_length(chain) IN
    [value |-> r.value, raises |-> r.raises, logged |-> FALSE]

\* The try/except of write_rss around the lookup: a request exception ends
\* there, logged, and the length is 0.
ContentLength(chain) ==
    LET r == _get_content_length(chain) IN
    IF r.raises = "RequestException"
    THEN [value |-> 0, raises |-> "none", logged |-> TRUE]
    ELSE [value |-> r.value, raises |-> r.raises, logged |-> FALSE]

\* Chunks write_rss writes.
Header == [kind |-> "header"]
Footer == [kind |-> "footer"]
Item(ent, content_length) ==
    [kind |-> "item",
     link |-> ent[1].url,
     pubDate |-> EffectiveTime(ent),
     enclosure |-> ent[2].url,
     length |-> content_length,
     duration |-> ent[2].duration]

(***************************************************************************)
(* The run of main().                                                      *)
(***************************************************************************)
Modes == {"all", "edited", "unedited"}
SinceChoices == {None, Some(0), Some(1)}

Init ==
    /\ args \in [audio : Modes, sort : BOOLEAN, since : SinceChoices]
    /\ since = None
    /\ pc = "start"
    /\ exc = "none"
    /\ fetched = FALSE
    /\ sitemap = <<>>
    /\ idx = 0
    /\ fetchCount = [i \in 1..MaxDebates |-> 0]
    /\ outcome = [i \in 1..MaxDebates |-> "pending"]
    /\ page = NoPage
    /\ lastYield = <<>>
    /\ yielded = <<>>
    /\ genRaise = "none"
    /\ exhausted = FALSE
    /\ tuples = <<>>
    /\ consumed = 0
    /\ fh = <<>>
    /\ log = <<>>

\* main up to the call of find_debate_podcasts: the cutoff and the filters.
\* With sorting, sorted() drains the generator before write_rss is called;
\* without, write_rss is called with the generator itself.
MainSetup ==
    /\ pc = "start"
    /\ since' = Cutoff(args)
    /\ pc' = IF args.sort THEN "collect" ELSE "header"
    /\ UNCHANGED <<args, exc, fetched, sitemap, idx, fetchCount, outcome, page,
                   lastYield, yielded, genRaise, exhausted, tuples, consumed, fh, log>>

\* The consumer of find_debate_podcasts is asking for the next pair.
Pulling ==
    \/ pc = "collect"
    \/ pc = "items" /\ ~args.sort /\ consumed = Len(yielded)

GenLive == ~exhausted /\ genRaise = "none"

\* find_debates: the GET of the sitemap raises (nothing catches it).
FetchSitemapFails ==
    /\ Pulling /\ GenLive /\ ~fetched
    /\ pc' = "aborted"
    /\ exc' = "RequestException"
    /\ UNCHANGED <<args, since, fetched, sitemap, idx, fetchCount, outcome, page,
                   lastYield, yielded, genRaise, exhausted, tuples, consumed, fh, log>>

\* find_debates: the sitemap is retrieved and parsed.
FetchSitemap ==
    /\ Pulling /\ GenLive /\ ~fetched
    /\ \E n \in 0..MaxDebates : \E lm \in [1..n -> Times] :
          sitemap' = [i \in 1..n |-> Debate(i, lm[i])]
    /\ fetched' = TRUE
    /\ UNCHANGED <<args, since, pc, exc, idx, fetchCount, outcome, page,
                   lastYield, yielded, genRaise, exhausted, tuples, consumed, fh, log>>

\* debate_filter skips a debate older than the cutoff.
DropDebate ==
    /\ Pulling /\ GenLive /\ fetched /\ idx < Len(sitemap)
    /\ DebateDropped(since, sitemap[idx + 1])
    /\ idx' = idx + 1
    /\ outcome' = [outcome EXCEPT ![idx + 1] = "dropped"]
    /\ UNCHANGED <<args, since, pc, exc, fetched, sitemap, fetchCount, page,
                   lastYield, yielded, genRaise, exhausted, tuples, consumed, fh, log>>

\* A find_debate_podcasts without the except clause.
CaughtNothing(raised) == FALSE

\* "except requests.exceptions.RequestException" of find_debate_podcasts.
Caught(raised) == raised = "RequestException"

\* Pairs that carry the first debate of the sitemap instead of the current one.
PairsOfFirstDebate(debate, podcasts) ==
    [k \in 1..Len(podcasts) |-> <<sitemap[1], podcasts[k]>>]

\* The pairs find_debate_podcasts yields for a debate.
Pairs(debate, podcasts) == [k \in 1..Len(podcasts) |-> <<debate, podcasts[k]>>]

\* The body of the loop of find_debate_podcasts for one debate whose page
\* answers with body: the pairs it yields, and how the try statement ends.
Scrape(debate, body) ==
    LET res == podcast_filter(args, since, find_podcasts(debate.url, body)) IN
    /\ Len(yielded) + Len(res.yields) <= MaxItems
    /\ fetchCount' = [fetchCount EXCEPT ![idx + 1] = @ + 1]
    /\ yielded' = yielded \o Pairs(debate, res.yields)
    /\ idx' = idx + 1
    /\ outcome' = [outcome EXCEPT ![idx + 1] =
                        IF res.raises = "none" THEN "ok" ELSE res.raises]
    /\ IF res.raises = "none"
       THEN UNCHANGED <<pc, exc, genRaise, log>>
       ELSE IF Caught(res.raises)
       THEN /\ log' = Append(log, [error |-> "page", url |-> debate.url])
            /\ UNCHANGED <<pc, exc, genRaise>>
       ELSE /\ IF res.yields = <<>>
               THEN pc' = "aborted" /\ exc' = res.raises /\ UNCHANGED genRaise
               ELSE genRaise' = res.raises /\ UNCHANGED <<pc, exc>>
            /\ UNCHANGED log

\* find_debate_podcasts takes the next debate that passes the filter.
ScrapeDebate ==
    /\ Pulling /\ GenLive /\ fetched /\ idx < Len(sitemap)
    /\ ~DebateDropped(since, sitemap[idx + 1])
    /\ \E body \in Pages : Scrape(sitemap[idx + 1], body)
    /\ UNCHANGED <<args, since, fetched, sitemap, page, lastYield, exhausted,
                   tuples, consumed, fh>>

\* The page generator raises after the pairs before the bad element are taken.
GenRaises ==
    /\ Pulling /\ genRaise # "none"
    /\ pc' = "aborted"
    /\ exc' = genRaise
    /\ UNCHANGED <<args, since, fetched, sitemap, idx, fetchCount, outcome, page,
                   lastYield, yielded, genRaise, exhausted, tuples, consumed, fh, log>>

\* The sitemap has no further debate: the generator ends.
GenEnds ==
    /\ Pulling /\ GenLive /\ fetched /\ idx = Len(sitemap)
    /\ exhausted' = TRUE
    /\ UNCHANGED <<args, since, pc, exc, fetched, sitemap, idx, fetchCount, outcome,
                   page, lastYield, yielded, genRaise, tuples, consumed, fh, log>>

\* sorted(podcast_tuples, key=..., reverse=True) returns.
Sort ==
    /\ pc = "collect" /\ exhausted
    /\ tuples' = SortedDesc(yielded)
    /\ pc' = "header"
    /\ UNCHANGED <<args, since, exc, fetched, sitemap, idx, fetchCount, outcome,
                   page, lastYield, yielded, genRaise, exhausted, consumed, fh, log>>

\* write_rss up to its loop: the xml declaration and the channel fields.
WriteHeader ==
    /\ pc = "header"
    /\ fh' = Append(fh, Header)
    /\ pc' = "items"
    /\ UNCHANGED <<args, since, exc, fetched, sitemap, idx, fetchCount, outcome,
                   page, lastYield, yielded, genRaise, exhausted, tuples, consumed, log>>

\* What write_rss iterates over.
Source == IF args.sort THEN tuples ELSE yielded

\* The body of the loop of write_rss for one pair, the HEAD request being
\* answered by chain.
Render(ent, chain) ==
    LET r == ContentLength(chain) IN
    IF r.raises # "none"
    THEN pc' = "aborted" /\ exc' = r.raises /\ UNCHANGED <<fh, log>>
    ELSE /\ fh' = Append(fh, Item(ent, r.value))
         /\ log' = IF r.logged
                   THEN Append(log, [error |-> "length", url |-> ent[2].url])
                   ELSE log
         /\ UNCHANGED <<pc, exc>>

\* One turn of the loop of write_rss.
RenderItem ==
    /\ pc = "items" /\ consumed < Len(Source)
    /\ \E chain \in Chains : Render(Source[consumed + 1], chain)
    /\ consumed' = consumed + 1
    /\ UNCHANGED <<args, since, fetched, sitemap, idx, fetchCount, outcome,
                   page, lastYield, yielded, genRaise, exhausted, tuples>>

\* The loop of write_rss ends; the end tags are written and main returns.
WriteFooter ==
    /\ pc = "items" /\ consumed = Len(Source)
    /\ args.sort \/ exhausted
    /\ fh' = Append(fh, Footer)
    /\ pc' = "done"
    /\ UNCHANGED <<args, since, exc, fetched, sitemap, idx, fetchCount, outcome,
                   page, lastYield, yielded, genRaise, exhausted, tuples, consumed, log>>

Next ==
    \/ MainSetup
    \/ FetchSitemapFails
    \/ FetchSitemap
    \/ DropDebate
    \/ ScrapeDebate
    \/ GenRaises
    \/ GenEnds
    \/ Sort
    \/ WriteHeader
    \/ RenderItem
    \/ WriteFooter

Spec == Init /\ [][Next]_vars

TypeOK ==
    /\ pc \in {"start", "collect", "header", "items", "done", "aborted"}
    /\ idx \in 0..MaxDebates
    /\ consumed \in 0..Len(Source)

(***************************************************************************)
(* The podcast filter of main on its own: main builds the filter for the   *)
(* parsed arguments, and find_debate_podcasts hands it the podcasts of one *)
(* debate page.                                                            *)
(***************************************************************************)
ApplyFilter ==
    /\ pc \in {"collect", "header"}
    /\ page = NoPage
    /\ \E body \in FilterPages :
         LET res == podcast_filter(args, since, find_podcasts(1, body)) IN
         /\ page' = body
         /\ lastYield' = res.yields
         /\ genRaise' = res.raises
    /\ pc' = "filtered"
    /\ UNCHANGED <<args, since, exc, fetched, sitemap, idx, fetchCount, outcome,
                   yielded, exhausted, tuples, consumed, fh, log>>

NextFilter ==
    \/ MainSetup
    \/ ApplyFilter

SpecFilter == Init /\ [][NextFilter]_vars

\* The podcasts of the page handed to the filter, in page order (the page
\* parsed without an exception).
Candidates ==
    [k \in 1..Len(page.audios) |->
        Podcast(page.pubDate, <<1, k>>, page.audios[k].duration)]

\* A podcast with a known publish date strictly older than the cutoff.
OlderThanCutoff(p) ==
    since # None /\ p.pubDate # None /\ p.pubDate[1] < since[1]

\* Positions of the candidates that survive the age cutoff.
Survivors == {k \in 1..Len(page.audios) : ~OlderThanCutoff(Candidates[k])}

Filtered == pc = "filtered" /\ page.status = "ok" /\ genRaise = "none"

\* C1: in unedited mode the filter yields at most one podcast of a debate,
\* none when no podcast survives the age cutoff, and the yielded podcast's
\* duration, read as an integer, is at least that of every surviving
\* candidate of the debate.
C1_UneditedYieldsLongest ==
    (Filtered /\ args.audio = "unedited") =>
        /\ Len(lastYield) <= 1
        /\ (Survivors = {} => lastYield = <<>>)
        /\ \A i \in 1..Len(lastYield) : \A k \in Survivors :
              DigitsToInt(lastYield[i].duration) >= DigitsToInt(Candidates[k].duration)

\* C2: in edited mode the filter yields at most one podcast of a debate, and
\* the yielded podcast's duration, read as an integer, is at most that of
\* every candidate of the debate that survived the age cutoff.
C2_EditedYieldsShortest ==
    (Filtered /\ args.audio = "edited") =>
        /\ Len(lastYield) <= 1
        /\ \A i \in 1..Len(lastYield) : \A k \in Survivors :
              DigitsToInt(lastYield[i].duration) <= DigitsToInt(Candidates[k].duration)

\* Positions of the audio elements the page generator reaches.
Parsed == 1..GoodPrefix(page.audios)

Items == SelectSeq(fh, LAMBDA c : c.kind = "item")

\* The effective timestamp of a pair: the podcast's publish date if it has
\* one, otherwise the last_modified of the debate it is paired with.
Effective(ent) ==
    IF ent[2].pubDate # <<>> THEN ent[2].pubDate[1] ELSE ent[1].last_modified

C4_PageFailureSkipsDebate ==
    /\ \A i \in 1..idx : outcome[i] = "RequestException" =>
          /\ \A j \in 1..Len(yielded) : yielded[j][1].url # i
          /\ \E l \in 1..Len(log) : log[l].error = "page" /\ log[l].url = i
          /\ idx = i => (pc # "aborted" /\ genRaise = "none")
    /\ (pc = "aborted" /\ exc = "RequestException") => ~fetched
    /\ \A i \in 1..idx : outcome[i] # "pending"
    /\ exhausted => idx = Len(sitemap)

\* A finished run in which the first page failed and the second debate
\* yielded a pair that reached the feed.
C4_Witness ==
    /\ pc = "done" /\ idx = 2
    /\ outcome[1] = "RequestException" /\ outcome[2] = "ok"
    /\ \E j \in 1..Len(yielded) : yielded[j][1].url = 2
    /\ Len(Items) = Len(yielded)

\* C5: when the sitemap fetch fails the run aborts with nothing written to
\* the output.
C5_SitemapFailureWritesNothing ==
    (pc = "aborted" /\ ~fetched) => fh = <<>>

\* C6: a run that ends has either written a complete feed or aborted, and it
\* aborts only when the sitemap fetch failed.
C6_AbortsOnlyOnSitemapFailure ==
    /\ pc = "aborted" => (~fetched /\ exc = "RequestException")
    /\ pc = "done" =>
          /\ fh[1] = Header /\ fh[Len(fh)] = Footer
          /\ Len(Items) = Len(Source) /\ Len(fh) = Len(Source) + 2

\* C7: with sorting the items stand in non-increasing order of effective
\* timestamp; without, they stand in the order of production, which is the
\* sitemap order of the debates and the page order within a debate.
C7_FeedOrder ==
    /\ Len(Items) <= Len(Source)
    /\ \A i \in 1..Len(Items) :
          /\ Items[i].enclosure = Source[i][2].url
          /\ Items[i].pubDate = Effective(Source[i])
    /\ args.sort =>
          /\ \A i, j \in 1..Len(Items) : i < j => Items[i].pubDate >= Items[j].pubDate
          /\ pc \in {"header", "items", "done"} => Len(tuples) = Len(yielded)
    /\ ~args.sort =>
          \A i, j \in 1..Len(Items) : i < j =>
              \/ Items[i].link < Items[j].link
              \/ Items[i].link = Items[j].link
                 /\ Items[i].enclosure[2] < Items[j].enclosure[2]

\* A sorted feed of two items whose pairs were produced in the opposite order.
C7_Witness ==
    /\ args.sort /\ pc = "done" /\ Len(Items) = 2
    /\ Effective(yielded[1]) < Effective(yielded[2])
    /\ Items[1].pubDate > Items[2].pubDate

\* The chain ends in a transport failure or an error status.
LookupFails(chain) == chain[Len(chain)].kind = "error"
\* The chain ends in a response without Content-Length header.
LookupFindsNoLength(chain) == chain[Len(chain)].kind = "nolength"

\* C9: a turn of the loop of write_rss whose content-length lookup fails, or
\* succeeds without a Content-Length header, writes the item with length 0
\* and leaves the render running; a render handed a list is never aborted,
\* and a finished render has written every item and the end tags.
C9_LookupFailureNeverAborts ==
    /\ [][\A chain \in Chains :
            (pc = "items" /\ consumed < Len(Source)
               /\ consumed' = consumed + 1 /\ Render(Source[consumed + 1], chain))
            => /\ pc' = "items"
               /\ Len(fh') = Len(fh) + 1
               /\ fh'[Len(fh')].kind = "item"
               /\ fh'[Len(fh')].enclosure = Source[consumed + 1][2].url
               /\ (LookupFails(chain) \/ LookupFindsNoLength(chain))
                     => fh'[Len(fh')].length = 0]_vars
    /\ [](/\ (args.sort /\ pc = "aborted") => fh = <<>>
          /\ (pc = "aborted" /\ exc = "RequestException") => ~fetched
          /\ pc = "done" => (Len(Items) = Len(Source) /\ fh[Len(fh)] = Footer))

\* A finished feed whose first item's lookup failed and was logged, with a
\* later item and the end tags behind it.
C9_Witness ==
    /\ pc = "done" /\ Len(Items) = 2
    /\ Items[1].length = 0
    /\ \E l \in 1..Len(log) :
          log[l].error = "length" /\ log[l].url = Items[1].enclosure
    /\ fh[Len(fh)] = Footer

\* C10: every yielded pair, and every item written, pairs a podcast with the
\* debate from whose page it was taken: the item's link is the url of the
\* page that held its audio element.
C10_PairFromOwnPage ==
    /\ \A j \in 1..Len(yielded) :
          /\ yielded[j][2].url[1] = yielded[j][1].url
          /\ yielded[j][1] = sitemap[yielded[j][1].url]
    /\ \A j \in 1..Len(tuples) : tuples[j][2].url[1] = tuples[j][1].url
    /\ \A i \in 1..Len(Items) : Items[i].link = Items[i].enclosure[1]

\* A finished feed with an item of the second debate.
C10_Witness ==
    /\ pc = "done"
    /\ \E i \in 1..Len(Items) : Items[i].link = 2 /\ Items[i].enclosure[1] = 2

\* The place of a pair in the order of production (pairs are distinct: the
\* audio url names page and position).
Produced(ent) == CHOOSE j \in 1..Len(yielded) : yielded[j] = ent

\* C11: with sorting, two pairs of equal effective timestamp stand in the
\* sorted list, and their items in the feed, in the order in which
\* find_debate_podcasts produced them; the sorted list holds exactly the
\* produced pairs.
C11_SortKeepsTiesInOrder ==
    (args.sort /\ pc \in {"header", "items", "done"}) =>
        /\ Len(tuples) = Len(yielded)
        /\ \A i \in 1..Len(tuples) : \E j \in 1..Len(yielded) : yielded[j] = tuples[i]
        /\ \A i, j \in 1..Len(tuples) :
              (i < j /\ Effective(tuples[i]) = Effective(tuples[j]))
                  => Produced(tuples[i]) < Produced(tuples[j])
        /\ \A i, j \in 1..Len(Items) :
              (i < j /\ Items[i].pubDate = Items[j].pubDate)
                  => \/ Items[i].link < Items[j].link
                     \/ Items[i].link = Items[j].link
                        /\ Items[i].enclosure[2] < Items[j].enclosure[2]

\* A sorted, finished feed of two items of equal effective timestamp taken
\* from two different debates.
C11_Witness ==
    /\ args.sort /\ pc = "done" /\ Len(Items) = 2
    /\ Items[1].pubDate = Items[2].pubDate
    /\ Items[1].link = 1 /\ Items[2].link = 2

====
